---- MODULE Spec2Model ----
(***************************************************************************)
(* The autocomplete widget: the Autocomplete component (search text,       *)
(* debounced lookup, dropdown, keyboard cursor), the useUsers hook (initial *)
(* retrieval, filterUsers) and the outside-click dismissal.                 *)
(*                                                                         *)
(* Strings are sequences of one-character strings, so that trim, split,    *)
(* toLowerCase and includes are computed as the code computes them.        *)
(* One action is one event handler together with the render and the        *)
(* effect run that React performs for the state it has set: no other event *)
(* is handled between a state update and the effects of its render.        *)
(* Timers carry no durations: a timeout or an awaited call may complete at *)
(* any later step.  Closures of the debounce effect that agree on text,    *)
(* captured collection, isSubscribed and phase are one element of tasks.   *)
(***************************************************************************)
EXTENDS Integers, Sequences, FiniteSets, TLC

\* ------------------------------------------------------------------ bounds
\* how many of the candidate input texts the user may type or paste
NumTexts == 4
\* how many records the remote endpoint returns
NumUsers == 3
\* how many filterUsers calls may be awaiting their SEARCH_DELAY at once
MaxInFlight == 2
\* number of fresh identities a re-render may give the detector's callback,
\* and of fresh identities it may give its region reference
MaxIdentities == 2
\* longest query filterUsers is applied to on its own
MaxQueryLen == 3
\* longest text and longest query HighlightText is applied to on its own
MaxTextLen == 3
MaxPatternLen == 2

\* ------------------------------------------------------------------ data
TextPool ==
  << <<>>, <<" ">>, <<"a">>, <<"z">>, <<"a", "l">>, <<"a", " ", "b">> >>

UserPool ==
  << [id |-> 1, name |-> <<"A", "l">>,      email |-> <<"a", "@", "x">>, username |-> <<"a", "l">>],
     [id |-> 2, name |-> <<"B", "e", "a">>, email |-> <<"b", "@", "x">>, username |-> <<"b", "a">>],
     [id |-> 3, name |-> <<"C", "a", "l">>, email |-> <<"c", "@", "x">>, username |-> <<"c", "a">>],
     [id |-> 4, name |-> <<"D", "a">>,      email |-> <<"d", "@", "x">>, username |-> <<"d", "a">>] >>

TypedTexts == {TextPool[i] : i \in 1..NumTexts}

\* the body of the response of API_URL
Directory == SubSeq(UserPool, 1, NumUsers)

NoError == "null"

\* ------------------------------------------------------------------ strings
\* the whitespace characters of the model: the space and the tab
Whitespace == {" ", "\t"}

\* String.prototype.trim() yields "" : every character is whitespace
Blank(s) == \A i \in 1..Len(s) : s[i] \in Whitespace

LowerChar(c) ==
  CASE c = "A" -> "a"
    [] c = "B" -> "b"
    [] c = "C" -> "c"
    [] c = "D" -> "d"
    [] OTHER -> c

\* String.prototype.toLowerCase()
ToLower(s) == [i \in 1..Len(s) |-> LowerChar(s[i])]

\* String.prototype.includes(needle)
Includes(hay, needle) ==
  \E k \in 0..(Len(hay) - Len(needle)) :
     \A j \in 1..Len(needle) : hay[k + j] = needle[j]

\* String.prototype.split(' ') : the pieces between single spaces,
\* empty pieces included
RECURSIVE SplitFrom(_, _, _)
SplitFrom(s, i, cur) ==
  IF i > Len(s) THEN <<cur>>
  ELSE IF s[i] = " " THEN <<cur>> \o SplitFrom(s, i + 1, <<>>)
  ELSE SplitFrom(s, i + 1, Append(cur, s[i]))

Split(s) == SplitFrom(s, 1, <<>>)

\* [name, email, username].join(' ').toLowerCase()
SearchableText(user) ==
  ToLower(user.name \o <<" ">> \o user.email \o <<" ">> \o user.username)

\* Array.prototype.filter, order kept
RECURSIVE SelectUsers(_, _)
SelectUsers(users, terms) ==
  IF users = <<>> THEN <<>>
  ELSE LET rest == SelectUsers(Tail(users), terms)
           hit  == \A k \in 1..Len(terms) :
                      Includes(SearchableText(Head(users)), terms[k])
       IN IF hit THEN <<Head(users)>> \o rest ELSE rest

\* variant: filterUsers returns [] for the empty query
FilterUsersEmptyForEmpty(users, query) ==
  IF query = <<>> THEN <<>> ELSE SelectUsers(users, Split(ToLower(query)))

\* the value filterUsers(query) resolves to, for the allUsers its closure holds
FilterUsers(users, query) == SelectUsers(users, Split(ToLower(query)))

\* the texts the input can hold: typed ones and committed names
Terms == TypedTexts \cup {Directory[i].name : i \in 1..Len(Directory)}

\* the values allUsers takes: empty, then the response
Collections == {<<>>, Directory}

\* filterUsers tabulated over the collections and texts of the model
FilterTable ==
  [users \in Collections |-> [query \in Terms |-> FilterUsers(users, query)]]

\* the result of the call filterUsers(query) made with that allUsers
Results(users, query) == FilterTable[users][query]


\* ------------------------------------------------------------------ state
VARIABLES
  searchTerm,    \* Autocomplete: the input's text
  suggestions,   \* Autocomplete: the suggestion list
  showDropdown,  \* Autocomplete: the dropdown visibility flag
  activeIndex,   \* Autocomplete: the selection cursor, -1 for none
  allUsers,      \* useUsers: the user collection
  isLoading,     \* useUsers: the loading flag
  error,         \* useUsers: the error message, NoError for null
  fetch,         \* the initial retrieval: "pending", "done", "aborted" by the
                 \* cleanup, or "settled" after the abort
  mounted,       \* the component is mounted
  tasks,         \* the closures of the debounce effect that still have a
                 \* timer or a filterUsers call pending
  last,          \* history: the event handled by the last step
  run,           \* history: progress of ArrowDown, ArrowDown, Enter pressed
                 \* in a row from an open list of three or more, cursor -1
  quiet,         \* history: the user has stopped interacting
  completed,     \* history: a lookup started by the current run of the
                 \* debounce effect has resolved and written its result
  focusOpened,   \* history: a focus-gained event has occurred since the
                 \* dropdown was last hidden
  enabled,       \* useOutsideClick: the enabled argument of the last render
  refCurrent,    \* useOutsideClick: ref.current is an element, not null
  refId,         \* useOutsideClick: identity of the ref object passed
  handlerId,     \* useOutsideClick: identity of the handler passed
  listeners,     \* the listeners useOutsideClick has on the document
  invoked,       \* history: handler() calls made by the last event
                 \* dispatched on the document
  threw,         \* history: a listener has read a property of null
  itemText,      \* HighlightText: the text prop
  parts,         \* HighlightText: the segments rendered, in order
  blankRows,     \* history: the render that followed the handler of the last
                 \* step, before any effect, showed suggestion rows and
                 \* passed them a blank query
  hidden         \* history: "dismiss" since Escape or an outside interaction
                 \* hid the dropdown, "commit" since a commit hid it, "none"
                 \* since the last focus-gained or text-changed event

progVars == <<searchTerm, suggestions, showDropdown, activeIndex,
              allUsers, isLoading, error, fetch, mounted, tasks>>
vars == <<searchTerm, suggestions, showDropdown, activeIndex,
          allUsers, isLoading, error, fetch, mounted, tasks,
          last, run, quiet, completed, focusOpened,
          enabled, refCurrent, refId, handlerId, listeners, invoked, threw,
          itemText, parts, blankRows, hidden>>
detVars == <<enabled, refCurrent, refId, handlerId, listeners, invoked, threw>>
hlVars == <<itemText, parts>>

\* the render shows SuggestionItem rows
RowsShown(sugg, show) == show /\ sugg # <<>>

\* the render shows rows and passes them query = term, which is blank: their
\* HighlightText instances return before useMemo
RowsWithBlankQuery(term, sugg, show) == RowsShown(sugg, show) /\ Blank(term)

NoTask == [term |-> <<>>, users |-> <<>>, isSubscribed |-> FALSE, phase |-> "none"]

Event(name) == [ev |-> name, task |-> NoTask, wrote |-> FALSE]

Keys == {"ArrowDown", "ArrowUp", "Enter", "Escape"}

\* ------------------------------------------------------------------ effect
\* variant: the cleanup forgets clearTimeout(searchTimeout)
CleanupKeepsTimer(tsk) == {[t EXCEPT !.isSubscribed = FALSE] : t \in tsk}

\* the cleanup the debounce effect returns: isSubscribed = false on its
\* closure, clearTimeout on its timer
Cleanup(tsk) ==
  {[t EXCEPT !.isSubscribed = FALSE] :
      t \in {u \in tsk : ~(u.isSubscribed /\ u.phase = "timer")}}

\* the closure a run of the effect creates for a non-blank text
NewTask(term, users) ==
  [term |-> term, users |-> users, isSubscribed |-> TRUE, phase |-> "timer"]

\* variant: the blank branch forgets setShowDropdown(false)
DebounceEffectKeepsOpen(term, users, sugg, show, tsk) ==
  IF Blank(term)
  THEN [suggestions |-> <<>>, showDropdown |-> show, tasks |-> Cleanup(tsk)]
  ELSE [suggestions |-> sugg, showDropdown |-> show,
        tasks |-> Cleanup(tsk) \cup {NewTask(term, users)}]

\* variant: no blank branch, the timer is armed for every text
DebounceEffectNoBlankBranch(term, users, sugg, show, tsk) ==
  [suggestions |-> sugg, showDropdown |-> show,
   tasks |-> Cleanup(tsk) \cup {NewTask(term, users)}]

\* the debounce effect, run because searchTerm or filterUsers changed:
\* the previous run's cleanup, then the body for the new values
DebounceEffect(term, users, sugg, show, tsk) ==
  IF Blank(term)
  THEN [suggestions |-> <<>>, showDropdown |-> FALSE, tasks |-> Cleanup(tsk)]
  ELSE [suggestions |-> sugg, showDropdown |-> show,
        tasks |-> Cleanup(tsk) \cup {NewTask(term, users)}]

\* ------------------------------------------------------------------ useOutsideClick
\* the events useOutsideClick listens to
ListenerTypes == {"mousedown", "touchstart"}

\* handleClick: useCallback gives a new function when the ref object, the
\* handler or enabled is not the one of the previous render
HandleClick(r, h, en) == [ref |-> r, handler |-> h, enabled |-> en]

\* the handleClick of the last render
CurrentHandleClick == HandleClick(refId, handlerId, enabled)

\* variant: the effect adds the mousedown listener only
RegisteredMouseOnly(fn) == {[type |-> "mousedown", fn |-> fn]}

\* the two addEventListener calls of the effect
Registered(fn) == {[type |-> ty, fn |-> fn] : ty \in ListenerTypes}

\* variant: the effect returns no cleanup
DetectorCleanupLeaks(ls, fn) == ls

\* the cleanup the effect returned for fn: none when it returned early
DetectorCleanup(ls, fn) == IF fn.enabled THEN ls \ Registered(fn) ELSE ls

\* the effect after a render: it runs again when handleClick or enabled is
\* new, first the cleanup of the previous run, then the body
DetectorEffect(ls, old, new) ==
  IF old = new
  THEN ls
  ELSE IF new.enabled
       THEN DetectorCleanup(ls, old) \cup Registered(new)
       ELSE DetectorCleanup(ls, old)

\* variant: handleClick tests enabled only before it calls contains
ListenerNoRefGuard(fn, outside) ==
  IF ~fn.enabled THEN "return"
  ELSE IF ~refCurrent THEN "throw"
  ELSE IF outside THEN "handler" ELSE "contained"

\* one call of the listener fn for an event whose target is outside the
\* region or in it: what the body of handleClick does
Listener(fn, outside) ==
  IF ~refCurrent \/ ~fn.enabled THEN "return"
  ELSE IF outside THEN "handler" ELSE "contained"

\* the hook after the first render and effect, called with enabled = en
MountDetector(en) ==
  /\ enabled = en
  /\ refCurrent = TRUE
  /\ refId = 0
  /\ handlerId = 0
  /\ listeners = IF en THEN Registered(HandleClick(0, 0, en)) ELSE {}
  /\ invoked = 0
  /\ threw = FALSE

\* ------------------------------------------------------------------ initial state
\* after the first render and its effects: the effect took the blank branch,
\* fetchUsers has set isLoading and awaits the response
ControllerInit ==
  /\ searchTerm = <<>>
  /\ suggestions = <<>>
  /\ showDropdown = FALSE
  /\ activeIndex = -1
  /\ allUsers = <<>>
  /\ isLoading = TRUE
  /\ error = NoError
  /\ fetch = "pending"
  /\ mounted = TRUE
  /\ tasks = {}
  /\ last = Event("mount")
  /\ run = 0
  /\ quiet = FALSE
  /\ completed = FALSE
  /\ focusOpened = FALSE
  /\ itemText = <<>>
  /\ parts = <<>>
  /\ blankRows = FALSE
  /\ hidden = "none"

\* Autocomplete calls useOutsideClick(searchBoxRef, handler) without the third
\* argument, so enabled has its default, true
Init == ControllerInit /\ MountDetector(TRUE)

\* ------------------------------------------------------------------ user events
\* the input's onChange; React calls it only when the value has changed
onChange(text) ==
  /\ mounted /\ ~quiet
  /\ text # searchTerm
  /\ LET e == DebounceEffect(text, allUsers, suggestions, showDropdown, tasks)
     IN /\ searchTerm' = text
        /\ activeIndex' = -1
        /\ suggestions' = e.suggestions
        /\ showDropdown' = e.showDropdown
        /\ tasks' = e.tasks
  /\ UNCHANGED <<detVars, hlVars>>
  /\ blankRows' = RowsWithBlankQuery(text, suggestions, showDropdown)
  /\ hidden' = "none"
  /\ last' = Event("change")
  /\ run' = 0
  /\ completed' = FALSE
  /\ focusOpened' = (focusOpened /\ showDropdown')
  /\ UNCHANGED <<allUsers, isLoading, error, fetch, mounted, quiet>>

\* variant: focus also runs the debounce effect again
onFocusRelookup ==
  /\ mounted /\ ~quiet
  /\ LET e == DebounceEffect(searchTerm, allUsers, suggestions, TRUE, tasks)
     IN /\ suggestions' = e.suggestions
        /\ showDropdown' = TRUE
        /\ tasks' = e.tasks
  /\ UNCHANGED <<detVars, hlVars>>
  /\ hidden' = "none"
  /\ last' = Event("focus")
  /\ run' = 0
  /\ focusOpened' = TRUE
  /\ completed' = FALSE
  /\ UNCHANGED <<searchTerm, activeIndex, allUsers, isLoading, error, fetch,
                 mounted, quiet>>
  /\ blankRows' = RowsWithBlankQuery(searchTerm', suggestions', showDropdown')

\* the input's onFocus
onFocus ==
  /\ mounted /\ ~quiet
  /\ showDropdown' = TRUE
  /\ UNCHANGED <<detVars, hlVars>>
  /\ hidden' = "none"
  /\ last' = Event("focus")
  /\ run' = 0
  /\ focusOpened' = TRUE
  /\ UNCHANGED <<searchTerm, suggestions, activeIndex, allUsers, isLoading,
                 error, fetch, mounted, tasks, quiet, completed>>
  /\ blankRows' = RowsWithBlankQuery(searchTerm', suggestions', showDropdown')

\* variant: selectUser forgets setShowDropdown(false)
selectUserKeepsOpen(name) ==
  LET e == IF name # searchTerm
           THEN DebounceEffect(name, allUsers, suggestions, showDropdown, tasks)
           ELSE [suggestions |-> suggestions, showDropdown |-> showDropdown,
                 tasks |-> tasks]
  IN /\ searchTerm' = name
     /\ showDropdown' = e.showDropdown
     /\ activeIndex' = -1
     /\ suggestions' = e.suggestions
     /\ tasks' = e.tasks

\* variant: selectUser forgets setActiveIndex(-1)
selectUserKeepsCursor(name) ==
  LET e == IF name # searchTerm
           THEN DebounceEffect(name, allUsers, suggestions, FALSE, tasks)
           ELSE [suggestions |-> suggestions, showDropdown |-> FALSE,
                 tasks |-> tasks]
  IN /\ searchTerm' = name
     /\ showDropdown' = e.showDropdown
     /\ activeIndex' = activeIndex
     /\ suggestions' = e.suggestions
     /\ tasks' = e.tasks

\* selectUser(name), and the effect run when the text has changed
selectUser(name) ==
  LET e == IF name # searchTerm
           THEN DebounceEffect(name, allUsers, suggestions, FALSE, tasks)
           ELSE [suggestions |-> suggestions, showDropdown |-> FALSE,
                 tasks |-> tasks]
  IN /\ searchTerm' = name
     /\ showDropdown' = e.showDropdown
     /\ activeIndex' = -1
     /\ suggestions' = e.suggestions
     /\ tasks' = e.tasks

\* variant: ArrowDown wraps from the last row to the first
ArrowDownIndexWraps(prev, len) == IF prev < len - 1 THEN prev + 1 ELSE 0

\* the functional update of ArrowDown
ArrowDownIndex(prev, len) == IF prev < len - 1 THEN prev + 1 ELSE prev

\* the functional update of ArrowUp
ArrowUpIndex(prev) == IF prev > 0 THEN prev - 1 ELSE -1

\* suggestions[activeIndex] is an element, not undefined
HasSuggestion(i) == i >= 0 /\ i + 1 <= Len(suggestions)

\* onKeyDown whose Escape branch only hides the list
handleKeyboardNavigationEscapeKeepsCursor(key) ==
  /\ mounted /\ ~quiet
  /\ IF ~showDropdown
     THEN UNCHANGED <<searchTerm, suggestions, showDropdown, activeIndex, tasks>>
     ELSE CASE key = "ArrowDown" ->
                 /\ activeIndex' = ArrowDownIndex(activeIndex, Len(suggestions))
                 /\ UNCHANGED <<searchTerm, suggestions, showDropdown, tasks>>
            [] key = "ArrowUp" ->
                 /\ activeIndex' = ArrowUpIndex(activeIndex)
                 /\ UNCHANGED <<searchTerm, suggestions, showDropdown, tasks>>
            [] key = "Enter" ->
                 IF HasSuggestion(activeIndex)
                 THEN selectUser(suggestions[activeIndex + 1].name)
                 ELSE UNCHANGED <<searchTerm, suggestions, showDropdown,
                                  activeIndex, tasks>>
            [] key = "Escape" ->
                 /\ showDropdown' = FALSE
                 /\ UNCHANGED <<searchTerm, suggestions, activeIndex, tasks>>
  /\ UNCHANGED <<detVars, hlVars>>
  /\ hidden' = IF showDropdown /\ key = "Escape" THEN "dismiss"
               ELSE IF showDropdown /\ key = "Enter" /\ HasSuggestion(activeIndex)
               THEN "commit"
               ELSE hidden
  /\ last' = Event(key)
  /\ run' = CASE key = "ArrowDown" /\ showDropdown /\ activeIndex = -1
                   /\ Len(suggestions) >= 3 -> 1
              [] key = "ArrowDown" /\ run = 1 -> 2
              [] key = "Enter" /\ run = 2 -> 3
              [] OTHER -> 0
  /\ completed' = (completed /\ searchTerm' = searchTerm)
  /\ focusOpened' = (focusOpened /\ showDropdown')
  /\ UNCHANGED <<allUsers, isLoading, error, fetch, mounted, quiet>>
  /\ blankRows' = RowsWithBlankQuery(searchTerm', suggestions', showDropdown')

\* onKeyDown without the first line, if (!showDropdown) return
handleKeyboardNavigationWhileHidden(key) ==
  /\ mounted /\ ~quiet
  /\ CASE key = "ArrowDown" ->
            /\ activeIndex' = ArrowDownIndex(activeIndex, Len(suggestions))
            /\ UNCHANGED <<searchTerm, suggestions, showDropdown, tasks>>
       [] key = "ArrowUp" ->
            /\ activeIndex' = ArrowUpIndex(activeIndex)
            /\ UNCHANGED <<searchTerm, suggestions, showDropdown, tasks>>
       [] key = "Enter" ->
            IF HasSuggestion(activeIndex)
            THEN selectUser(suggestions[activeIndex + 1].name)
            ELSE UNCHANGED <<searchTerm, suggestions, showDropdown,
                             activeIndex, tasks>>
       [] key = "Escape" ->
            /\ showDropdown' = FALSE
            /\ activeIndex' = -1
            /\ UNCHANGED <<searchTerm, suggestions, tasks>>
  /\ UNCHANGED <<detVars, hlVars>>
  /\ hidden' = IF showDropdown /\ key = "Escape" THEN "dismiss"
               ELSE IF showDropdown /\ key = "Enter" /\ HasSuggestion(activeIndex)
               THEN "commit"
               ELSE hidden
  /\ last' = Event(key)
  /\ run' = CASE key = "ArrowDown" /\ showDropdown /\ activeIndex = -1
                   /\ Len(suggestions) >= 3 -> 1
              [] key = "ArrowDown" /\ run = 1 -> 2
              [] key = "Enter" /\ run = 2 -> 3
              [] OTHER -> 0
  /\ completed' = (completed /\ searchTerm' = searchTerm)
  /\ focusOpened' = (focusOpened /\ showDropdown')
  /\ UNCHANGED <<allUsers, isLoading, error, fetch, mounted, quiet>>
  /\ blankRows' = RowsWithBlankQuery(searchTerm', suggestions', showDropdown')

\* the input's onKeyDown
handleKeyboardNavigation(key) ==
  /\ mounted /\ ~quiet
  /\ IF ~showDropdown
     THEN UNCHANGED <<searchTerm, suggestions, showDropdown, activeIndex, tasks>>
     ELSE CASE key = "ArrowDown" ->
                 /\ activeIndex' = ArrowDownIndex(activeIndex, Len(suggestions))
                 /\ UNCHANGED <<searchTerm, suggestions, showDropdown, tasks>>
            [] key = "ArrowUp" ->
                 /\ activeIndex' = ArrowUpIndex(activeIndex)
                 /\ UNCHANGED <<searchTerm, suggestions, showDropdown, tasks>>
            [] key = "Enter" ->
                 IF HasSuggestion(activeIndex)
                 THEN selectUser(suggestions[activeIndex + 1].name)
                 ELSE UNCHANGED <<searchTerm, suggestions, showDropdown,
                                  activeIndex, tasks>>
            [] key = "Escape" ->
                 /\ showDropdown' = FALSE
                 /\ activeIndex' = -1
                 /\ UNCHANGED <<searchTerm, suggestions, tasks>>
  /\ UNCHANGED <<detVars, hlVars>>
  /\ hidden' = IF showDropdown /\ key = "Escape" THEN "dismiss"
               ELSE IF showDropdown /\ key = "Enter" /\ HasSuggestion(activeIndex)
               THEN "commit"
               ELSE hidden
  /\ last' = Event(key)
  /\ run' = CASE key = "ArrowDown" /\ showDropdown /\ activeIndex = -1
                   /\ Len(suggestions) >= 3 -> 1
              [] key = "ArrowDown" /\ run = 1 -> 2
              [] key = "Enter" /\ run = 2 -> 3
              [] OTHER -> 0
  /\ completed' = (completed /\ searchTerm' = searchTerm)
  /\ focusOpened' = (focusOpened /\ showDropdown')
  /\ UNCHANGED <<allUsers, isLoading, error, fetch, mounted, quiet>>
  /\ blankRows' = RowsWithBlankQuery(searchTerm', suggestions', showDropdown')

\* a row whose onClick passes the username
onSelectUsername(i) ==
  /\ mounted /\ ~quiet
  /\ showDropdown
  /\ i \in 1..Len(suggestions)
  /\ selectUser(suggestions[i].username)
  /\ UNCHANGED <<detVars, hlVars>>
  /\ hidden' = "commit"
  /\ last' = Event("select")
  /\ run' = 0
  /\ completed' = (completed /\ searchTerm' = searchTerm)
  /\ focusOpened' = FALSE
  /\ UNCHANGED <<allUsers, isLoading, error, fetch, mounted, quiet>>
  /\ blankRows' = RowsWithBlankQuery(searchTerm', suggestions', showDropdown')

\* the onClick of the i-th SuggestionItem; rows exist while the list is shown
onSelect(i) ==
  /\ mounted /\ ~quiet
  /\ showDropdown
  /\ i \in 1..Len(suggestions)
  /\ selectUser(suggestions[i].name)
  /\ UNCHANGED <<detVars, hlVars>>
  /\ hidden' = "commit"
  /\ last' = Event("select")
  /\ run' = 0
  /\ completed' = (completed /\ searchTerm' = searchTerm)
  /\ focusOpened' = FALSE
  /\ UNCHANGED <<allUsers, isLoading, error, fetch, mounted, quiet>>
  /\ blankRows' = RowsWithBlankQuery(searchTerm', suggestions', showDropdown')

\* useOutsideClick's handleClick for a mousedown or touchstart on the
\* document; searchBoxRef.current is the wrapper while mounted, enabled is
\* true, and the handler is () => setShowDropdown(false)
handleClick(outside) ==
  /\ mounted /\ ~quiet
  /\ showDropdown' = IF outside THEN FALSE ELSE showDropdown
  /\ UNCHANGED <<detVars, hlVars>>
  /\ hidden' = IF outside /\ showDropdown THEN "dismiss" ELSE hidden
  /\ last' = Event(IF outside THEN "outside" ELSE "inside")
  /\ run' = 0
  /\ focusOpened' = (focusOpened /\ showDropdown')
  /\ UNCHANGED <<searchTerm, suggestions, activeIndex, allUsers, isLoading,
                 error, fetch, mounted, tasks, quiet, completed>>
  /\ blankRows' = RowsWithBlankQuery(searchTerm', suggestions', showDropdown')

\* ------------------------------------------------------------------ timers
Timers == {t \in tasks : t.phase = "timer"}

InFlight == {t \in tasks : t.phase = "lookup"}

\* the debounce timeout fires: its callback calls filterUsers(searchTerm),
\* which awaits SEARCH_DELAY
TimerFire(t) ==
  /\ t \in tasks /\ t.phase = "timer"
  /\ Cardinality(InFlight) < MaxInFlight
  /\ tasks' = (tasks \ {t}) \cup {[t EXCEPT !.phase = "lookup"]}
  /\ UNCHANGED <<detVars, hlVars>>
  /\ UNCHANGED hidden
  /\ last' = [ev |-> "fire", task |-> t, wrote |-> FALSE]
  /\ run' = 0
  /\ UNCHANGED <<searchTerm, suggestions, showDropdown, activeIndex, allUsers,
                 isLoading, error, fetch, mounted, quiet, completed,
                 focusOpened>>
  /\ blankRows' = RowsWithBlankQuery(searchTerm', suggestions', showDropdown')

\* variant: the callback does not test isSubscribed
LookupResolveUnguarded(t) ==
  /\ t \in tasks /\ t.phase = "lookup"
  /\ suggestions' = Results(t.users, t.term)
  /\ showDropdown' = TRUE
  /\ tasks' = tasks \ {t}
  /\ UNCHANGED <<detVars, hlVars>>
  /\ UNCHANGED hidden
  /\ last' = [ev |-> "resolve", task |-> t, wrote |-> TRUE]
  /\ run' = 0
  /\ completed' = (completed \/ t.isSubscribed)
  /\ UNCHANGED <<searchTerm, activeIndex, allUsers, isLoading, error, fetch,
                 mounted, quiet, focusOpened>>
  /\ blankRows' = RowsWithBlankQuery(searchTerm', suggestions', showDropdown')

\* filterUsers resolves and the timeout callback continues
LookupResolve(t) ==
  /\ t \in tasks /\ t.phase = "lookup"
  /\ IF t.isSubscribed
     THEN /\ suggestions' = Results(t.users, t.term)
          /\ showDropdown' = TRUE
     ELSE UNCHANGED <<suggestions, showDropdown>>
  /\ tasks' = tasks \ {t}
  /\ UNCHANGED <<detVars, hlVars>>
  /\ UNCHANGED hidden
  /\ last' = [ev |-> "resolve", task |-> t, wrote |-> t.isSubscribed]
  /\ run' = 0
  /\ completed' = (completed \/ t.isSubscribed)
  /\ UNCHANGED <<searchTerm, activeIndex, allUsers, isLoading, error, fetch,
                 mounted, quiet, focusOpened>>
  /\ blankRows' = RowsWithBlankQuery(searchTerm', suggestions', showDropdown')

\* ------------------------------------------------------------------ useUsers
\* variant: filterUsers keeps its first identity (useCallback without the
\* allUsers dependency), so the debounce effect does not run again
FetchOkKeepsFilter ==
  /\ fetch = "pending"
  /\ fetch' = "done"
  /\ allUsers' = Directory
  /\ isLoading' = FALSE
  /\ UNCHANGED <<detVars, hlVars>>
  /\ blankRows' = RowsWithBlankQuery(searchTerm, suggestions, showDropdown)
  /\ UNCHANGED hidden
  /\ last' = Event("fetchOk")
  /\ run' = 0
  /\ UNCHANGED <<searchTerm, suggestions, showDropdown, activeIndex, error,
                 mounted, tasks, quiet, completed, focusOpened>>

\* the response arrives with a success status: setAllUsers(data), then
\* setIsLoading(false); filterUsers is rebuilt for the new allUsers, so the
\* debounce effect runs again
FetchOk ==
  /\ fetch = "pending"
  /\ fetch' = "done"
  /\ allUsers' = Directory
  /\ isLoading' = FALSE
  /\ LET e == DebounceEffect(searchTerm, Directory, suggestions, showDropdown, tasks)
     IN /\ suggestions' = e.suggestions
        /\ showDropdown' = e.showDropdown
        /\ tasks' = e.tasks
  /\ UNCHANGED <<detVars, hlVars>>
  /\ blankRows' = RowsWithBlankQuery(searchTerm, suggestions, showDropdown)
  /\ UNCHANGED hidden
  /\ last' = Event("fetchOk")
  /\ run' = 0
  /\ completed' = FALSE
  /\ focusOpened' = (focusOpened /\ showDropdown')
  /\ UNCHANGED <<searchTerm, activeIndex, error, mounted, quiet>>

\* the message of the error fetchUsers catches
ErrorMessage(kind) ==
  IF kind = "status" THEN "HTTP error! status" ELSE "Failed to fetch"

\* variant: no finally block, the loading flag stays set after a failure
FetchFailKeepsLoading(kind) ==
  /\ fetch = "pending"
  /\ fetch' = "done"
  /\ error' = ErrorMessage(kind)
  /\ UNCHANGED <<detVars, hlVars>>
  /\ UNCHANGED hidden
  /\ last' = Event("fetchFail")
  /\ run' = 0
  /\ UNCHANGED <<searchTerm, suggestions, showDropdown, activeIndex, allUsers,
                 isLoading, mounted, tasks, quiet, completed, focusOpened>>
  /\ blankRows' = RowsWithBlankQuery(searchTerm', suggestions', showDropdown')

\* the response has a non-success status, or fetch rejects
FetchFail(kind) ==
  /\ fetch = "pending"
  /\ fetch' = "done"
  /\ error' = ErrorMessage(kind)
  /\ isLoading' = FALSE
  /\ UNCHANGED <<detVars, hlVars>>
  /\ UNCHANGED hidden
  /\ last' = Event("fetchFail")
  /\ run' = 0
  /\ UNCHANGED <<searchTerm, suggestions, showDropdown, activeIndex, allUsers,
                 mounted, tasks, quiet, completed, focusOpened>>
  /\ blankRows' = RowsWithBlankQuery(searchTerm', suggestions', showDropdown')

\* variant: the catch block sets the error whatever the error's name
CatchSetsErrorAlways(name) == TRUE

\* the test of the catch block; err is an Error in every case modelled
CatchSetsError(name) == name # "AbortError"

\* the test of the finally block on abortController.signal.aborted
FinallyClearsLoading(aborted) == ~aborted

\* the retrieval aborted by the cleanup settles: fetch (or response.json)
\* rejects with an AbortError, and fetchUsers runs its catch and finally
FetchAborted ==
  /\ fetch = "aborted"
  /\ fetch' = "settled"
  /\ error' = IF CatchSetsError("AbortError")
              THEN "The operation was aborted" ELSE error
  /\ isLoading' = IF FinallyClearsLoading(TRUE) THEN FALSE ELSE isLoading
  /\ UNCHANGED <<detVars, hlVars>>
  /\ UNCHANGED hidden
  /\ last' = Event("fetchAbort")
  /\ run' = 0
  /\ UNCHANGED <<searchTerm, suggestions, showDropdown, activeIndex, allUsers,
                 mounted, tasks, quiet, completed, focusOpened>>
  /\ blankRows' = RowsWithBlankQuery(searchTerm', suggestions', showDropdown')

\* ------------------------------------------------------------------ teardown
\* variant: the debounce effect returns no cleanup
UnmountKeepsTimers ==
  /\ mounted /\ ~quiet
  /\ mounted' = FALSE
  /\ fetch' = IF fetch = "pending" THEN "aborted" ELSE fetch
  /\ refCurrent' = FALSE
  /\ listeners' = DetectorCleanup(listeners, CurrentHandleClick)
  /\ last' = Event("unmount")
  /\ run' = 0
  /\ UNCHANGED <<searchTerm, suggestions, showDropdown, activeIndex, allUsers,
                 isLoading, error, tasks, quiet, completed, focusOpened,
                 enabled, refId, handlerId, invoked, threw, hidden>>
  /\ UNCHANGED hlVars
  /\ blankRows' = FALSE

\* unmount: the cleanups of the debounce effect, of useOutsideClick and of
\* useUsers (abort of the retrieval)
Unmount ==
  /\ mounted /\ ~quiet
  /\ mounted' = FALSE
  /\ tasks' = Cleanup(tasks)
  /\ fetch' = IF fetch = "pending" THEN "aborted" ELSE fetch
  /\ refCurrent' = FALSE
  /\ listeners' = DetectorCleanup(listeners, CurrentHandleClick)
  /\ last' = Event("unmount")
  /\ run' = 0
  /\ UNCHANGED <<searchTerm, suggestions, showDropdown, activeIndex, allUsers,
                 isLoading, error, quiet, completed, focusOpened,
                 enabled, refId, handlerId, invoked, threw, hidden>>
  /\ UNCHANGED hlVars
  /\ blankRows' = FALSE

\* the user stops: no user event follows
UserStops ==
  /\ mounted /\ ~quiet
  /\ quiet' = TRUE
  /\ UNCHANGED <<detVars, hlVars>>
  /\ UNCHANGED hidden
  /\ last' = Event("stop")
  /\ run' = 0
  /\ UNCHANGED progVars
  /\ UNCHANGED <<completed, focusOpened>>
  /\ blankRows' = RowsWithBlankQuery(searchTerm', suggestions', showDropdown')

\* ------------------------------------------------------------------ specification
Next ==
  \/ \E text \in TypedTexts : onChange(text)
  \/ onFocus
  \/ \E key \in Keys : handleKeyboardNavigation(key)
  \/ \E i \in 1..NumUsers : onSelect(i)
  \/ \E outside \in BOOLEAN : handleClick(outside)
  \/ \E t \in tasks : TimerFire(t)
  \/ \E t \in tasks : LookupResolve(t)
  \/ FetchOk
  \/ \E kind \in {"status", "network"} : FetchFail(kind)
  \/ FetchAborted
  \/ Unmount
  \/ UserStops

Spec == Init /\ [][Next]_vars

\* the steps the event loop takes by itself: an armed timeout fires, an
\* awaited filterUsers call resolves, the retrieval ends with a response,
\* with a failure or with the rejection of an aborted request
Background ==
  \/ \E t \in tasks : TimerFire(t)
  \/ \E t \in tasks : LookupResolve(t)
  \/ FetchOk
  \/ \E kind \in {"status", "network"} : FetchFail(kind)
  \/ FetchAborted

\* the event loop does not stop while one of these steps is pending
FairSpec == Spec /\ WF_vars(Background)

\* ------------------------------------------------------------------ properties
Pending == \E t \in tasks : t.isSubscribed

\* C1: a lookup whose text or filter function is no longer the current one
\* writes neither the suggestion list nor the visibility flag when it
\* resolves; a lookup that writes was started for the current text and the
\* current filter function, and the list it leaves is their filter result.
C1_StaleLookupNeverWrites ==
  [][last'.ev = "resolve" =>
       LET t == last'.task
           current == t.term = searchTerm /\ t.users = allUsers
       IN /\ ~current => (~last'.wrote /\ UNCHANGED <<suggestions, showDropdown>>)
          /\ last'.wrote =>
               (current /\ suggestions' = Results(allUsers, searchTerm)
                        /\ showDropdown')]_vars

\* a superseded lookup has resolved after the later text produced its
\* results, and its own result differs from the list on display
C1_Witness ==
  /\ last.ev = "resolve" /\ ~last.wrote
  /\ last.task.term # searchTerm
  /\ completed /\ mounted
  /\ suggestions # Results(last.task.users, last.task.term)

\* C2: the cursor is within [-1, length - 1] of the current suggestion list.
C2_CursorWithinBounds ==
  mounted => (-1 <= activeIndex /\ activeIndex <= Len(suggestions) - 1)

\* C3 as stated: the dropdown is visible only if the text is non-blank and
\* a lookup for it is pending or has completed.
C3_VisibleOnlyWithQuery ==
  (mounted /\ showDropdown) => (~Blank(searchTerm) /\ (Pending \/ completed))

\* C3 amended: the dropdown is visible only if a focus-gained event has
\* occurred since it was last hidden, or the text is non-blank and a lookup
\* for it is pending or has completed.
C3_VisibleOnlyWithQueryOrFocus ==
  (mounted /\ showDropdown) =>
     (focusOpened \/ (~Blank(searchTerm) /\ (Pending \/ completed)))

\* the dropdown was opened by a lookup, not by focus, and the text has
\* changed since: the lookup for the new text is in flight
C3_Witness ==
  /\ mounted /\ showDropdown /\ ~focusOpened /\ ~completed
  /\ \E t \in InFlight : t.isSubscribed

\* C4 as stated: ArrowDown, ArrowDown, Enter from an open list of three or
\* more with the cursor at -1 commits the suggestion at index 2.
C4_CommitsThird ==
  run = 3 => (searchTerm = suggestions[3].name /\ ~showDropdown)

\* C4 amended: ArrowDown, ArrowDown, Enter from an open list of three or
\* more with the cursor at -1 commits the suggestion at index 1, the second
\* from the top, and closes the dropdown.
C4_CommitsSecond ==
  run = 3 => (searchTerm = suggestions[2].name /\ ~showDropdown)

C4_Witness == run = 3 /\ Len(suggestions) >= 3 /\ activeIndex = -1

\* C5: at most one debounce timer is armed, it is the one of the current
\* text; a change to a non-blank text leaves exactly the timer armed for
\* it; the timer that invokes the filter was armed for the text that is
\* current when it fires.
C5_OneTimerForCurrentText ==
  /\ Cardinality(Timers) <= 1
  /\ \A t \in Timers : t.isSubscribed /\ t.term = searchTerm
  /\ (last.ev = "change" /\ ~Blank(searchTerm)) =>
        Timers = {NewTask(searchTerm, allUsers)}
  /\ last.ev = "fire" => (last.task.isSubscribed /\ last.task.term = searchTerm)

\* a timer has fired while a superseded lookup was still in flight
C5_Witness ==
  /\ last.ev = "fire" /\ last.task.term = searchTerm
  /\ \E t \in InFlight : ~t.isSubscribed

\* C6: a change to a blank text empties the suggestion list and hides the
\* dropdown; while the text is blank no timer is armed; no timer and no
\* filterUsers call is ever made for a blank text.
C6_BlankTextNoLookup ==
  /\ (last.ev = "change" /\ Blank(searchTerm)) =>
        (suggestions = <<>> /\ ~showDropdown)
  /\ Blank(searchTerm) => Timers = {}
  /\ \A t \in tasks : ~Blank(t.term)
  /\ last.ev \in {"fire", "resolve"} => ~Blank(last.task.term)

\* the text has become whitespace-only while a lookup was in flight
C6_Witness ==
  /\ last.ev = "change" /\ searchTerm = <<" ">>
  /\ InFlight # {}

\* the retrieval has ended and the list is the filter of the collection by
\* the current text
ListSettled ==
  fetch # "pending" /\ suggestions = Results(allUsers, searchTerm)

\* C7 as stated, at the states where the user has stopped and neither a
\* timer, a lookup nor the retrieval is pending, so that nothing changes any
\* more: with a non-blank text the list is the filter of the collection by
\* the text and the dropdown is visible.
C7_SettlesOpen ==
  (quiet /\ mounted /\ ~Blank(searchTerm) /\ tasks = {} /\ fetch # "pending")
     => (ListSettled /\ showDropdown)

\* C7 amended: once the user has stopped on a non-blank text, the list
\* eventually is the filter of the loaded collection by the text, and the
\* dropdown eventually is visible too when the lookup for the text had not
\* completed yet when the user stopped.
C7_EventuallySettles ==
  /\ (quiet /\ mounted /\ ~Blank(searchTerm)) ~> ListSettled
  /\ (quiet /\ mounted /\ ~Blank(searchTerm) /\ ~completed)
        ~> (ListSettled /\ showDropdown)

\* the text was typed during the retrieval, the user has stopped, and the
\* lookup started after the retrieval has written the loaded matches
C7_Witness ==
  /\ quiet /\ mounted /\ showDropdown /\ ~focusOpened
  /\ last.ev = "resolve" /\ last.wrote /\ last.task.users = Directory
  /\ suggestions # <<>> /\ ListSettled
  /\ \E t \in tasks : t.users = <<>>

\* C8: focus-gained shows the dropdown and changes neither the text, the
\* suggestion list, the cursor nor the pending timers and lookups.
C8_FocusOnlyOpens ==
  [][last'.ev = "focus" =>
       (showDropdown' /\ UNCHANGED <<searchTerm, suggestions, activeIndex, tasks>>)]_vars

\* focus gained while a timer is pending and an earlier list is on display
C8_Witness ==
  /\ last.ev = "focus" /\ showDropdown
  /\ Timers # {} /\ suggestions # <<>>

\* C9: while the dropdown is open ArrowDown moves the cursor from i to i+1
\* when i < length - 1 and leaves it otherwise, ArrowUp moves it from i to
\* i-1 when i > 0 and sets it to -1 otherwise; neither changes visibility,
\* text or suggestion list.
C9_ArrowsClamp ==
  [][(showDropdown /\ last'.ev \in {"ArrowDown", "ArrowUp"}) =>
       /\ last'.ev = "ArrowDown" =>
            activeIndex' = (IF activeIndex < Len(suggestions) - 1
                            THEN activeIndex + 1 ELSE activeIndex)
       /\ last'.ev = "ArrowUp" =>
            activeIndex' = (IF activeIndex > 0 THEN activeIndex - 1 ELSE -1)
       /\ UNCHANGED <<showDropdown, searchTerm, suggestions>>]_vars

\* ArrowDown pressed with the cursor on the last row of a list of two or more
C9_Witness ==
  /\ last.ev = "ArrowDown" /\ showDropdown /\ run = 0
  /\ Len(suggestions) >= 2 /\ activeIndex = Len(suggestions) - 1

\* C10: Enter with the dropdown open and the cursor on a suggestion sets
\* the text to its name, hides the dropdown and resets the cursor; Enter
\* with the cursor at -1 changes nothing.
C10_EnterCommits ==
  [][last'.ev = "Enter" =>
       /\ (showDropdown /\ HasSuggestion(activeIndex)) =>
            /\ searchTerm' = suggestions[activeIndex + 1].name
            /\ ~showDropdown'
            /\ activeIndex' = -1
       /\ activeIndex = -1 => UNCHANGED progVars]_vars

\* Enter has committed the third row
C10_Witness ==
  /\ last.ev = "Enter" /\ ~showDropdown /\ activeIndex = -1
  /\ Len(suggestions) >= 3 /\ searchTerm = suggestions[3].name
  /\ Timers # {}

\* ---------------------------------------------------------------- C11
\* C11: Escape pressed while the dropdown is open hides the dropdown and
\* sets the cursor to -1, and leaves the input text and the suggestion
\* list as they were.
C11_EscapeDismisses ==
  [][(last'.ev = "Escape" /\ showDropdown) =>
       /\ ~showDropdown'
       /\ activeIndex' = -1
       /\ searchTerm' = searchTerm
       /\ suggestions' = suggestions]_vars

\* Escape has just dismissed a list that had a row under the cursor
C11_Witness ==
  /\ last.ev = "Escape"
  /\ ~showDropdown
  /\ activeIndex = -1
  /\ suggestions # <<>>
  /\ ~Blank(searchTerm)
  /\ run = 0
  /\ completed

\* ---------------------------------------------------------------- C12
\* what a commit of row i leaves in the text, the visibility, the cursor and
\* the list: a function of the state that does not read the cursor
CommitOutcome(i) ==
  [text |-> suggestions[i].name,
   show |-> FALSE,
   index |-> -1,
   list |-> IF Blank(suggestions[i].name) THEN <<>> ELSE suggestions]

\* the next state holds outcome o
Yields(o) ==
  /\ searchTerm' = o.text
  /\ showDropdown' = o.show
  /\ activeIndex' = o.index
  /\ suggestions' = o.list

\* C12: in every open state, pointer activation of row i and Enter with the
\* cursor on row i each have one resulting text, visibility, cursor and
\* suggestion list, and it is the same one for both.
C12_ClickSameAsEnter ==
  (mounted /\ ~quiet /\ showDropdown) =>
    /\ \A i \in 1..Len(suggestions) :
         /\ ENABLED (onSelect(i) /\ Yields(CommitOutcome(i)))
         /\ ~ENABLED (onSelect(i) /\ ~Yields(CommitOutcome(i)))
    /\ HasSuggestion(activeIndex) =>
         /\ ENABLED (handleKeyboardNavigation("Enter")
                       /\ Yields(CommitOutcome(activeIndex + 1)))
         /\ ~ENABLED (handleKeyboardNavigation("Enter")
                        /\ ~Yields(CommitOutcome(activeIndex + 1)))

\* a row other than the one under the cursor has been activated by pointer
C12_Witness ==
  /\ last.ev = "select"
  /\ ~showDropdown
  /\ activeIndex = -1
  /\ Len(suggestions) >= 2
  /\ searchTerm = suggestions[2].name

\* ------------------------------------------------------------------ the detector alone
\* a render of the component that calls useOutsideClick: it may pass a new
\* handler, a new ref object and another value of enabled; then the effect
DetectorRender(newHandler, newRef, en) ==
  /\ mounted
  /\ newHandler => handlerId < MaxIdentities
  /\ newRef => refId < MaxIdentities
  /\ handlerId' = IF newHandler THEN handlerId + 1 ELSE handlerId
  /\ refId' = IF newRef THEN refId + 1 ELSE refId
  /\ enabled' = en
  /\ listeners' = DetectorEffect(listeners, CurrentHandleClick,
                                 HandleClick(refId', handlerId', en))
  /\ last' = Event("render")
  /\ UNCHANGED <<searchTerm, suggestions, showDropdown, activeIndex, allUsers,
                 isLoading, error, fetch, mounted, tasks, run, quiet,
                 completed, focusOpened, refCurrent, invoked, threw,
                 itemText, parts, blankRows, hidden>>

\* the element the ref is given to is rendered or no longer rendered
SetRefCurrent(present) ==
  /\ mounted
  /\ refCurrent # present
  /\ refCurrent' = present
  /\ last' = Event("ref")
  /\ UNCHANGED <<searchTerm, suggestions, showDropdown, activeIndex, allUsers,
                 isLoading, error, fetch, mounted, tasks, run, quiet,
                 completed, focusOpened, enabled, refId, handlerId, listeners,
                 invoked, threw, itemText, parts, blankRows, hidden>>

\* a mousedown or a touchstart reaches the document: every listener of that
\* type is called; the handler is Autocomplete's () => setShowDropdown(false)
DetectorDispatch(type, outside) ==
  /\ LET called == {l \in listeners : l.type = type}
         calls == {l \in called : Listener(l.fn, outside) = "handler"}
     IN /\ invoked' = Cardinality(calls)
        /\ threw' = (threw \/ \E l \in called : Listener(l.fn, outside) = "throw")
        /\ showDropdown' = IF calls # {} THEN FALSE ELSE showDropdown
        /\ hidden' = IF calls # {} /\ showDropdown THEN "dismiss" ELSE hidden
  /\ last' = Event(type)
  /\ focusOpened' = (focusOpened /\ showDropdown')
  /\ UNCHANGED <<searchTerm, suggestions, activeIndex, allUsers, isLoading,
                 error, fetch, mounted, tasks, run, quiet, completed,
                 enabled, refCurrent, refId, handlerId, listeners,
                 itemText, parts, blankRows>>

\* the hook is mounted with either value of enabled
DetectorInit == ControllerInit /\ \E en \in BOOLEAN : MountDetector(en)

DetectorNext ==
  \/ \E newHandler \in BOOLEAN, newRef \in BOOLEAN, en \in BOOLEAN :
       DetectorRender(newHandler, newRef, en)
  \/ \E present \in BOOLEAN : SetRefCurrent(present)
  \/ \E type \in ListenerTypes, outside \in BOOLEAN :
       DetectorDispatch(type, outside)
  \/ onFocus
  \/ Unmount

\* useOutsideClick under every sequence of renders, events and unmount
DetectorSpec == DetectorInit /\ [][DetectorNext]_vars

\* ---------------------------------------------------------------- C13
\* C13: every mousedown or touchstart outside the region, dispatched while
\* the dropdown is open and the detector is bound as Autocomplete binds it
\* (mounted, enabled, region present), leaves the dropdown closed; and no
\* dispatched event makes a listener throw, the region reference being
\* present or absent.
C13_OutsideClosesNeverThrows ==
  [][\A type \in ListenerTypes, outside \in BOOLEAN :
       DetectorDispatch(type, outside) =>
         /\ ~threw'
         /\ (outside /\ showDropdown /\ mounted /\ enabled /\ refCurrent)
              => ~showDropdown']_vars

\* an event was dispatched, with the listeners attached, while the region
\* reference was absent and the dropdown open
C13_Witness ==
  /\ last.ev \in ListenerTypes
  /\ mounted /\ enabled /\ ~refCurrent
  /\ listeners # {}
  /\ showDropdown
  /\ ~threw

\* ---------------------------------------------------------------- C14
\* C14: a mousedown or touchstart calls the handler exactly once when the
\* detector is enabled and mounted and the target is outside the region,
\* and zero times when the target is inside the region, when the detector is
\* disabled, when it is unmounted and when there is no region.
C14_OncePerOutsideEvent ==
  [][\A type \in ListenerTypes, outside \in BOOLEAN :
       DetectorDispatch(type, outside) =>
         invoked' = IF enabled /\ mounted /\ refCurrent /\ outside
                    THEN 1 ELSE 0]_vars

\* a touchstart outside the region called the handler once, after the
\* listener had been bound again for a new handler
C14_Witness ==
  /\ last.ev = "touchstart"
  /\ invoked = 1
  /\ handlerId >= 1
  /\ mounted /\ enabled /\ refCurrent

\* ---------------------------------------------------------------- C15
\* the detector's listeners of one type
ListenersOf(type) == {l \in listeners : l.type = type}

\* C15: whatever the renders (new handler, new ref object, enabled, disabled)
\* and the unmount, the document has at most one mousedown and at most one
\* touchstart listener of the detector, it has them only while the detector
\* is enabled and mounted, and every one it has is the current handleClick.
C15_NoLeakedListeners ==
  /\ \A type \in ListenerTypes : Cardinality(ListenersOf(type)) <= 1
  /\ listeners # {} => (enabled /\ mounted)
  /\ \A l \in listeners : l.fn = CurrentHandleClick

\* both listeners are bound after the handler has been replaced as often as
\* the bound allows and the ref object at least once
C15_Witness ==
  /\ last.ev = "render"
  /\ handlerId = MaxIdentities
  /\ refId >= 1
  /\ mounted /\ enabled
  /\ Cardinality(listeners) = 2

\* ---------------------------------------------------------------- C16
\* C16: an unmount while the retrieval is pending aborts it, and from then
\* on no step, the settling of the aborted retrieval included, changes the
\* user collection, the loading flag or the error status.
C16_AbortedFetchWritesNothing ==
  [][/\ (mounted /\ ~mounted' /\ fetch = "pending") => fetch' = "aborted"
     /\ fetch \in {"aborted", "settled"} =>
          UNCHANGED <<allUsers, isLoading, error>>]_vars

\* the aborted retrieval has settled after the unmount
C16_Witness ==
  /\ last.ev = "fetchAbort"
  /\ ~mounted
  /\ fetch = "settled"
  /\ allUsers = <<>> /\ isLoading /\ error = NoError

\* ---------------------------------------------------------------- C17
\* C17: once the retrieval has failed (non-success status or network
\* failure) the loading flag is false, the error is the failure's message,
\* the collection is empty, and every lookup that resolves and writes,
\* writes the empty list.
C17_FailedFetchEmptyResults ==
  error # NoError =>
    /\ ~isLoading
    /\ error \in {ErrorMessage("status"), ErrorMessage("network")}
    /\ allUsers = <<>>
    /\ suggestions = <<>>
    /\ \A t \in tasks : t.users = <<>>

\* after the failure a query was typed and its lookup resolved with the
\* empty list, which the open dropdown shows
C17_Witness ==
  /\ error = ErrorMessage("status")
  /\ last.ev = "resolve" /\ last.wrote
  /\ last.task.term = searchTerm
  /\ ~Blank(searchTerm)
  /\ suggestions = <<>>
  /\ showDropdown

\* ---------------------------------------------------------------- C18
\* C18: after the unmount of the Search Controller no debounce timer is
\* armed, none fires, and no lookup that resolves writes the suggestion list
\* or the visibility flag.
C18_NothingAfterTeardown ==
  [][~mounted' =>
       /\ Timers' = {}
       /\ last'.ev # "fire"
       /\ ~last'.wrote
       /\ UNCHANGED <<suggestions, showDropdown>>]_vars

\* a lookup that was in flight at the unmount has resolved after it, and
\* the text typed before the unmount never got its results
C18_Witness ==
  /\ ~mounted
  /\ last.ev = "resolve"
  /\ ~last.wrote
  /\ last.task.term = searchTerm
  /\ last.task.users = Directory
  /\ suggestions # Results(Directory, searchTerm)

\* ------------------------------------------------------------------ HighlightText
\* the characters the class [.*+?^${}()|[\]\\] of the replace call matches
RegexSpecial ==
  {".", "*", "+", "?", "^", "$", "{", "}", "(", ")", "|", "[", "]", "\\"}

\* variant: the query is used as the pattern as it is
EscapeRegExpNone(q) == q

\* query.replace(/[.*+?^${}()|[\]\\]/g, '\\$&') : a backslash before every
\* special character
RECURSIVE EscapeRegExp(_)
EscapeRegExp(q) ==
  IF q = <<>> THEN <<>>
  ELSE (IF Head(q) \in RegexSpecial THEN <<"\\", Head(q)>> ELSE <<Head(q)>>)
       \o EscapeRegExp(Tail(q))

\* the value that stands for the exception new RegExp throws
SyntaxError == <<[any |-> FALSE, char |-> "SyntaxError"]>>

\* new RegExp(`(${pattern})`, 'gi') for the patterns of the model: a
\* backslash makes the next character literal, an unescaped dot matches
\* any character, an unescaped opening parenthesis is never closed and a
\* backslash at the end escapes nothing (both SyntaxError); the result is the
\* sequence of one-character matchers, or SyntaxError
RECURSIVE Compile(_)
Compile(pattern) ==
  IF pattern = <<>> THEN <<>>
  ELSE IF Head(pattern) = "\\"
       THEN IF Len(pattern) = 1 THEN SyntaxError
            ELSE LET rest == Compile(SubSeq(pattern, 3, Len(pattern)))
                 IN IF rest = SyntaxError THEN rest
                    ELSE <<[any |-> FALSE, char |-> pattern[2]]>> \o rest
       ELSE IF Head(pattern) = "(" THEN SyntaxError
       ELSE LET rest == Compile(Tail(pattern))
            IN IF rest = SyntaxError THEN rest
               ELSE <<[any |-> Head(pattern) = ".", char |-> Head(pattern)]>>
                    \o rest

\* the regex matches s at offset q (flag i: letters match in either case)
MatchesAt(regex, s, q) ==
  /\ q + Len(regex) <= Len(s)
  /\ \A j \in 1..Len(regex) :
        regex[j].any \/ LowerChar(regex[j].char) = LowerChar(s[q + j])

\* String.prototype.split(regex): p is the end of the last match, q the
\* offset tried; a match that ends at p is skipped; the matched text is
\* spliced in when the regex has the capturing group
RECURSIVE RegexSplitFrom(_, _, _, _, _)
RegexSplitFrom(s, regex, capture, p, q) ==
  IF q >= Len(s) THEN <<SubSeq(s, p + 1, Len(s))>>
  ELSE LET e == q + Len(regex)
       IN IF MatchesAt(regex, s, q) /\ e # p
          THEN <<SubSeq(s, p + 1, q)>>
               \o (IF capture THEN <<SubSeq(s, q + 1, e)>> ELSE <<>>)
               \o RegexSplitFrom(s, regex, capture, e, e)
          ELSE RegexSplitFrom(s, regex, capture, p, q + 1)

RegexSplit(s, regex, capture) ==
  IF s = <<>>
  THEN IF MatchesAt(regex, s, 0) THEN <<>> ELSE <<s>>
  ELSE RegexSplitFrom(s, regex, capture, 0, 0)

\* variant: the pattern has no capturing group, split drops the matches
SplitPartsNoCapture(text, query) ==
  LET regex == Compile(EscapeRegExp(query))
  IN IF regex = SyntaxError THEN <<text>>
     ELSE RegexSplit(text, regex, FALSE)

\* the value of useMemo: text.split(regex), or [text] when RegExp throws
SplitParts(text, query) ==
  LET regex == Compile(EscapeRegExp(query))
  IN IF regex = SyntaxError THEN <<text>>
     ELSE RegexSplit(text, regex, TRUE)

\* part.toLowerCase() === query.toLowerCase()
IsMatch(part, query) == ToLower(part) = ToLower(query)

\* the segments of the fragment for the parts
Segments(ps, query) ==
  [i \in 1..Len(ps) |-> [content |-> ps[i], isMatch |-> IsMatch(ps[i], query)]]

\* variant: no early return for a blank query
HighlightTextNoEarlyReturn(text, query) ==
  Segments(SplitParts(text, query), query)

\* what HighlightText renders: the text alone for a blank query, else one
\* segment per part, in <strong> when isMatch
HighlightText(text, query) ==
  IF Blank(query)
  THEN <<[content |-> text, isMatch |-> FALSE]>>
  ELSE Segments(SplitParts(text, query), query)

\* ------------------------------------------------------------------ filterUsers alone
\* the characters of the queries: a letter, a capital, the space, the tab
QueryChars == {"a", "B", " ", "\t"}

\* every query of at most MaxQueryLen characters
Queries == UNION {[1..n -> QueryChars] : n \in 0..MaxQueryLen}

\* every collection of distinct records of the directory, in every order
UserLists ==
  {u \in UNION {[1..n -> {Directory[i] : i \in 1..Len(Directory)}] :
                  n \in 0..Len(Directory)} :
     \A i, j \in 1..Len(u) : i # j => u[i] # u[j]}

\* allUsers holds the collection U, searchTerm the query q; the call
\* filterUsers(q) has not been made
FilterInit ==
  /\ searchTerm \in Queries
  /\ allUsers \in UserLists
  /\ suggestions = <<>>
  /\ showDropdown = FALSE
  /\ activeIndex = -1
  /\ isLoading = FALSE
  /\ error = NoError
  /\ fetch = "done"
  /\ mounted = TRUE
  /\ tasks = {}
  /\ last = Event("mount")
  /\ run = 0
  /\ quiet = FALSE
  /\ completed = FALSE
  /\ focusOpened = FALSE
  /\ itemText = <<>>
  /\ parts = <<>>
  /\ blankRows = FALSE
  /\ hidden = "none"
  /\ MountDetector(TRUE)

\* filterUsers(searchTerm) resolves and its value is kept in suggestions
ApplyFilter ==
  /\ last.ev = "mount"
  /\ suggestions' = FilterUsers(allUsers, searchTerm)
  /\ last' = Event("filter")
  /\ UNCHANGED <<searchTerm, showDropdown, activeIndex, allUsers, isLoading,
                 error, fetch, mounted, tasks, run, quiet, completed,
                 focusOpened>>
  /\ UNCHANGED <<detVars, hlVars>>
  /\ UNCHANGED blankRows
  /\ UNCHANGED hidden

\* the texts of the three HighlightText of a SuggestionItem
RenderedFields(user) == <<user.name, user.email, <<"@">> \o user.username>>

\* the rows of the returned records are rendered with query = searchTerm:
\* parts holds, for every row, the segments of its three HighlightText
RenderRows ==
  /\ last.ev = "filter"
  /\ parts' = [i \in 1..Len(suggestions) |->
                [f \in 1..3 |->
                  HighlightText(RenderedFields(suggestions[i])[f], searchTerm)]]
  /\ last' = Event("rows")
  /\ UNCHANGED <<searchTerm, suggestions, showDropdown, activeIndex, allUsers,
                 isLoading, error, fetch, mounted, tasks, run, quiet,
                 completed, focusOpened, itemText, blankRows, hidden>>
  /\ UNCHANGED detVars

FilterNext == ApplyFilter \/ RenderRows

\* filterUsers applied once to every collection and query of the bounds, and
\* the rows of its result rendered
FilterSpec == FilterInit /\ [][FilterNext]_vars

\* ---------------------------------------------------------------- C19
\* the terms of a query: its maximal runs of characters that are not
\* whitespace
RECURSIVE WordsFrom(_, _, _)
WordsFrom(s, i, cur) ==
  LET done == IF cur = <<>> THEN {} ELSE {cur}
  IN IF i > Len(s) THEN done
     ELSE IF s[i] \in Whitespace THEN done \cup WordsFrom(s, i + 1, <<>>)
     ELSE WordsFrom(s, i + 1, Append(cur, s[i]))

WhitespaceTerms(q) == WordsFrom(q, 1, <<>>)

\* the terms of a query when only the space separates
RECURSIVE SpaceWordsFrom(_, _, _)
SpaceWordsFrom(s, i, cur) ==
  LET done == IF cur = <<>> THEN {} ELSE {cur}
  IN IF i > Len(s) THEN done
     ELSE IF s[i] = " " THEN done \cup SpaceWordsFrom(s, i + 1, <<>>)
     ELSE SpaceWordsFrom(s, i + 1, Append(cur, s[i]))

\* name, email and username joined by single spaces
JoinedFields(user) ==
  user.name \o <<" ">> \o user.email \o <<" ">> \o user.username

\* text contains term, case-insensitively
ContainsIgnoringCase(text, term) == Includes(ToLower(text), ToLower(term))

\* the records of U, in the order of U, that contain every term
RecordsContaining(U, terms) ==
  SelectSeq(U, LAMBDA user :
                 \A w \in terms : ContainsIgnoringCase(JoinedFields(user), w))

\* C19: for every collection U and query q, filterUsers(q) returns, in the
\* order of U, exactly the records whose name, email and username joined by
\* single spaces contain, case-insensitively, every whitespace-separated
\* term of q.
C19_FilterMatchesWhitespaceTerms ==
  last.ev = "filter" =>
    suggestions = RecordsContaining(allUsers, WhitespaceTerms(searchTerm))

\* the same with the terms separated by spaces only: what split(' ') gives
FilterMatchesSpaceTerms ==
  last.ev = "filter" =>
    suggestions = RecordsContaining(allUsers, SpaceWordsFrom(searchTerm, 1, <<>>))

\* ---------------------------------------------------------------- C20
\* C20: for every collection U, filterUsers("") returns the empty list.
C20_EmptyQueryEmptyResult ==
  (last.ev = "filter" /\ searchTerm = <<>>) => suggestions = <<>>

\* C20 as the code has it: for every collection U, filterUsers("") returns
\* U, every record in its place ("".split(' ') is [""], and every text
\* includes "").
C20_EmptyQueryAllUsers ==
  (last.ev = "filter" /\ searchTerm = <<>>) => suggestions = allUsers

\* filterUsers("") has returned a collection of two or more records
C20_Witness ==
  /\ last.ev = "filter"
  /\ searchTerm = <<>>
  /\ Len(allUsers) >= 2
  /\ suggestions = allUsers

\* ------------------------------------------------------------------ HighlightText alone
\* the characters of the texts and of the queries given to HighlightText
TextChars == {"a", "A", ".", "("}
PatternChars == {"a", "A", ".", "(", " "}

Texts == UNION {[1..n -> TextChars] : n \in 0..MaxTextLen}
Patterns == UNION {[1..n -> PatternChars] : n \in 0..MaxPatternLen}

\* itemText holds the text prop, searchTerm the query prop; HighlightText has
\* not rendered
HighlightInit ==
  /\ searchTerm \in Patterns
  /\ itemText \in Texts
  /\ parts = <<>>
  /\ suggestions = <<>>
  /\ showDropdown = FALSE
  /\ activeIndex = -1
  /\ allUsers = <<>>
  /\ isLoading = FALSE
  /\ error = NoError
  /\ fetch = "done"
  /\ mounted = TRUE
  /\ tasks = {}
  /\ last = Event("mount")
  /\ run = 0
  /\ quiet = FALSE
  /\ completed = FALSE
  /\ focusOpened = FALSE
  /\ blankRows = FALSE
  /\ hidden = "none"
  /\ MountDetector(TRUE)

\* HighlightText renders
RenderHighlight ==
  /\ last.ev = "mount"
  /\ parts' = HighlightText(itemText, searchTerm)
  /\ last' = Event("highlight")
  /\ UNCHANGED <<searchTerm, suggestions, showDropdown, activeIndex, allUsers,
                 isLoading, error, fetch, mounted, tasks, run, quiet,
                 completed, focusOpened, itemText, blankRows, hidden>>
  /\ UNCHANGED detVars

HighlightNext == RenderHighlight

\* HighlightText rendered once for every text and query of the bounds
HighlightSpec == HighlightInit /\ [][HighlightNext]_vars

\* the contents of the segments, concatenated in order
RECURSIVE Concat(_)
Concat(segs) ==
  IF segs = <<>> THEN <<>> ELSE Head(segs).content \o Concat(Tail(segs))

\* ---------------------------------------------------------------- C21
\* C21: for every text and query, the contents of the segments HighlightText
\* renders, concatenated in order, are the text exactly.
C21_SegmentsConcatToText ==
  last.ev = "highlight" => Concat(parts) = itemText

\* a text with two occurrences of the query, in different case, was split
C21_Witness ==
  /\ last.ev = "highlight"
  /\ Len(parts) = 5
  /\ parts[2].isMatch /\ parts[4].isMatch
  /\ parts[2].content # parts[4].content

\* ---------------------------------------------------------------- C22
\* C22: for every text, HighlightText given an empty or whitespace-only
\* query renders the text as one segment, not marked as a match.
C22_BlankQueryOnePlainSegment ==
  (last.ev = "highlight" /\ Blank(searchTerm)) =>
    parts = <<[content |-> itemText, isMatch |-> FALSE]>>

\* a whitespace-only query, not empty, was given with a text of special
\* characters
C22_Witness ==
  /\ last.ev = "highlight"
  /\ Blank(searchTerm) /\ searchTerm # <<>>
  /\ itemText = <<".", "(">>
  /\ Len(parts) = 1

\* ---------------------------------------------------------------- C23
\* the offset in the text at which segment i starts
RECURSIVE Offset(_, _)
Offset(segs, i) ==
  IF i = 1 THEN 0 ELSE Offset(segs, i - 1) + Len(segs[i - 1].content)

\* s is an occurrence of q read as a literal string, whatever the case
OccurrenceOf(s, q) == Len(s) = Len(q) /\ ToLower(s) = ToLower(q)

\* C23: for every text and non-blank query, a segment is marked as a match
\* exactly when it is the query character for character up to case, the
\* special characters standing for themselves; every segment holds the
\* characters of the text at its place, in their case; and no segment that
\* is not marked contains such an occurrence.
C23_MatchedIffLiteralOccurrence ==
  (last.ev = "highlight" /\ ~Blank(searchTerm)) =>
    \A i \in 1..Len(parts) :
       /\ parts[i].isMatch <=> OccurrenceOf(parts[i].content, searchTerm)
       /\ parts[i].content =
            SubSeq(itemText, Offset(parts, i) + 1,
                   Offset(parts, i) + Len(parts[i].content))
       /\ ~parts[i].isMatch =>
            ~ContainsIgnoringCase(parts[i].content, searchTerm)

\* a query of special characters matched a capital and a special character
\* of the text, which keeps its case
C23_Witness ==
  /\ last.ev = "highlight"
  /\ searchTerm = <<"a", "(">>
  /\ itemText = <<".", "A", "(">>
  /\ Len(parts) = 3
  /\ parts[2] = [content |-> <<"A", "(">>, isMatch |-> TRUE]

\* ---------------------------------------------------------------- C24
\* C24: once Escape or an outside interaction has hidden the dropdown, it is
\* not visible again before the next focus-gained or text-changed event; a
\* lookup in flight at the dismissal does not reopen it.
C24_DismissedStaysHidden == hidden = "dismiss" => ~showDropdown

\* ---------------------------------------------------------------- C25
\* C25: after a commit by Enter or by pointer the dropdown is not visible
\* before the next focus-gained or text-changed event; the lookup the commit's
\* own change of the text starts does not reopen it.
C25_CommittedStaysHidden == hidden = "commit" => ~showDropdown

\* ---------------------------------------------------------------- C26
\* C26: at every render of Autocomplete that shows suggestion rows, the one
\* between a handler and its effects included, the query passed to the rows
\* is not blank, so no mounted HighlightText goes from its useMemo branch to
\* its early return.
C26_RowsNeverGetBlankQuery ==
  /\ ~blankRows
  /\ RowsShown(suggestions, showDropdown) => ~Blank(searchTerm)

\* ---------------------------------------------------------------- C28
\* C28: a press of ArrowDown, ArrowUp, Enter or Escape while the dropdown is
\* hidden changes none of the text, the suggestion list, the visibility and
\* the cursor.
C28_KeysIgnoredWhileHidden ==
  [][(last'.ev \in Keys /\ ~showDropdown) =>
       UNCHANGED <<searchTerm, suggestions, showDropdown, activeIndex>>]_vars

\* Enter was pressed while the dropdown was hidden over a list that still
\* had a row under the cursor
C28_Witness ==
  /\ last.ev = "Enter"
  /\ ~showDropdown
  /\ HasSuggestion(activeIndex)
  /\ searchTerm # suggestions[activeIndex + 1].name

\* ---------------------------------------------------------------- C27
\* C27: for every non-blank query and every record filterUsers returns for
\* it, HighlightText with the same query marks a match in at least one of
\* the record's three rendered fields; queries of several terms included.
C27_EveryResultHasHighlight ==
  (last.ev = "rows" /\ ~Blank(searchTerm)) =>
    \A i \in 1..Len(parts) :
       \E f \in 1..3 : \E k \in 1..Len(parts[i][f]) : parts[i][f][k].isMatch

\* the same for the queries without whitespace, which are one term
SingleTermResultHasHighlight ==
  (last.ev = "rows" /\ searchTerm # <<>>
     /\ \A k \in 1..Len(searchTerm) : searchTerm[k] \notin Whitespace) =>
    \A i \in 1..Len(parts) :
       \E f \in 1..3 : \E k \in 1..Len(parts[i][f]) : parts[i][f][k].isMatch

====
